---- MODULE Spec2Model ----
(***************************************************************************)
(* Model of modules/actions/move.js (actionMove): moving a set of graph    *)
(* entities by a projected offset.  The graph, the projection and the      *)
(* geometry helpers are collaborators of move.js; they are modelled in     *)
(* fixed-point integer arithmetic.  Ids are integers: nodes 1..99, ways    *)
(* 101..199, relations 201..299, nodes made by osmNode() are -1, -2, ...   *)
(* Array indexes are 0-based as in the source (At0).                       *)
(***************************************************************************)
EXTENDS Integers, Sequences, FiniteSets, TLC

VARIABLES base, moveIds, cache, delta, tryDelta, status, result, translated,
          nextId, limitLog, reported, reused, ce

vars == <<base, moveIds, cache, delta, tryDelta, status, result, translated,
          nextId, limitLog, reported, reused, ce>>

(* ---------------------------------------------------------------------- *)
(* Bounds                                                                 *)
(* ---------------------------------------------------------------------- *)
MaxDelta == 2

MaxDepth == 8

(* ---------------------------------------------------------------------- *)
(* Small helpers                                                          *)
(* ---------------------------------------------------------------------- *)
At0(s, i) == s[i + 1]

Has0(s, i) == i >= 0 /\ i < Len(s)

Range(s) == {s[i] : i \in 1..Len(s)}

IndexOf(s, x) ==
    IF \E i \in 1..Len(s) : s[i] = x
    THEN (CHOOSE i \in 1..Len(s) : s[i] = x /\ \A j \in 1..(i - 1) : s[j] # x) - 1
    ELSE -1

Count(s, x) == Cardinality({i \in 1..Len(s) : s[i] = x})

NoDup(s) == \A i, j \in 1..Len(s) : s[i] = s[j] => i = j

Without(s, x) == SelectSeq(s, LAMBDA y : y # x)

RoundDiv(n, d) == (2 * n + d) \div (2 * d)

RECURSIVE ISqrtIter(_, _)
ISqrtIter(n, x) ==
    LET y == (x + n \div x) \div 2
    IN IF y >= x THEN x ELSE ISqrtIter(n, y)

ISqrt(n) == IF n <= 0 THEN 0 ELSE ISqrtIter(n, n)

(* ---------------------------------------------------------------------- *)
(* Vectors, projection                                                    *)
(* ---------------------------------------------------------------------- *)
geoVecAdd(a, b) == <<a[1] + b[1], a[2] + b[2]>>

geoVecSubtract(a, b) == <<a[1] - b[1], a[2] - b[2]>>

geoVecCross(a, b) == a[1] * b[2] - a[2] * b[1]

Dot(a, b) == a[1] * b[1] + a[2] * b[2]

\* geoVecInterp(a, b, 0.5), rounded to the fixed-point grid
geoVecInterpHalf(a, b) ==
    <<a[1] + RoundDiv(b[1] - a[1], 2), a[2] + RoundDiv(b[2] - a[2], 2)>>

\* The projection: geographic y grows upwards, projected y grows downwards.
ProjOrigin == <<2, 9>>

projection(loc) == <<loc[1] + ProjOrigin[1], ProjOrigin[2] - loc[2]>>

projectionInvert(p) == <<p[1] - ProjOrigin[1], ProjOrigin[2] - p[2]>>

\* projection.invert of the rational point <<xn/den, yn/den>>
projectionInvertRat(xn, yn, den) ==
    <<RoundDiv(xn - ProjOrigin[1] * den, den),
      RoundDiv(ProjOrigin[2] * den - yn, den)>>

\* Euclidean length in 1/1000 of a projected unit
Dist1000(a, b) ==
    LET d == geoVecSubtract(a, b) IN ISqrt(Dot(d, d) * 1000000)

RECURSIVE geoPathLength(_)
geoPathLength(path) ==
    IF Len(path) < 2 THEN 0
    ELSE Dist1000(path[1], path[2]) + geoPathLength(Tail(path))

\* |geoAngle(o, p) - geoAngle(o, n)| * 180 / PI lies strictly between 175
\* and 185; atan2(0, 0) is 0, the angle of the vector <<1, 0>>.
\* cos(175 deg)^2 = 0.9924
AngleIsStraight(o, p, n) ==
    LET u0 == geoVecSubtract(p, o)
        v0 == geoVecSubtract(n, o)
        u == IF u0 = <<0, 0>> THEN <<1, 0>> ELSE u0
        v == IF v0 = <<0, 0>> THEN <<1, 0>> ELSE v0
        d == Dot(u, v)
    IN d < 0 /\ d * d * 10000 > 9924 * Dot(u, u) * Dot(v, v)

\* geoLineIntersection(<<p, p2>>, <<q, q2>>): <<>> for null, else <<hit>>
\* with hit the rational point <<xn, yn, den>>, den > 0
geoLineIntersection(p, p2, q, q2) ==
    LET r == geoVecSubtract(p2, p)
        s == geoVecSubtract(q2, q)
        uNumerator == geoVecCross(geoVecSubtract(q, p), r)
        denominator == geoVecCross(r, s)
        tNumerator == geoVecCross(geoVecSubtract(q, p), s)
        sg == IF denominator < 0 THEN -1 ELSE 1
        un == sg * uNumerator
        tn == sg * tNumerator
        dn == sg * denominator
    IN IF uNumerator # 0 /\ denominator # 0
          /\ tn >= 0 /\ tn <= dn /\ un >= 0 /\ un <= dn
       THEN << <<p[1] * dn + tn * r[1], p[2] * dn + tn * r[2], dn>> >>
       ELSE <<>>

RECURSIVE PathHitsRow(_, _, _, _)
PathHitsRow(path1, i, path2, j) ==
    IF j > Len(path2) - 1 THEN <<>>
    ELSE geoLineIntersection(path1[i], path1[i + 1], path2[j], path2[j + 1])
         \o PathHitsRow(path1, i, path2, j + 1)

RECURSIVE PathHitsFrom(_, _, _)
PathHitsFrom(path1, i, path2) ==
    IF i > Len(path1) - 1 THEN <<>>
    ELSE PathHitsRow(path1, i, path2, 1) \o PathHitsFrom(path1, i + 1, path2)

geoPathIntersections(path1, path2) == PathHitsFrom(path1, 1, path2)

\* _isEqual(hit, end) for a rational hit and a grid point
HitEquals(hit, end) == hit[1] = end[1] * hit[3] /\ hit[2] = end[2] * hit[3]

\* One segment of geoChooseEdge: the candidate [ok, index, dn, dd, loc] where
\* dn/dd is the squared distance; ok is FALSE when the distance is NaN
\* (zero-length segment).
EdgeCandidate(points, k, point) ==
    LET o == points[k]
        e == points[k + 1]
        s == geoVecSubtract(e, o)
        v == geoVecSubtract(point, o)
        vs == Dot(v, s)
        ss == Dot(s, s)
        w == geoVecSubtract(point, e)
    IN IF ss = 0 THEN [ok |-> FALSE, index |-> k, dn |-> 0, dd |-> 1, loc |-> <<0, 0>>]
       ELSE IF vs < 0
            THEN [ok |-> TRUE, index |-> k, dn |-> Dot(v, v), dd |-> 1,
                  loc |-> projectionInvert(o)]
       ELSE IF vs > ss
            THEN [ok |-> TRUE, index |-> k, dn |-> Dot(w, w), dd |-> 1,
                  loc |-> projectionInvert(e)]
       ELSE [ok |-> TRUE, index |-> k, dn |-> Dot(v, v) * ss - vs * vs, dd |-> ss,
             loc |-> projectionInvertRat(o[1] * ss + vs * s[1],
                                         o[2] * ss + vs * s[2], ss)]

RECURSIVE ChooseEdgeFrom(_, _, _, _)
ChooseEdgeFrom(points, k, point, best) ==
    IF k > Len(points) - 1 THEN best
    ELSE LET c == EdgeCandidate(points, k, point)
             better == c.ok /\ (~best.ok \/ c.dn * best.dd < best.dn * c.dd)
         IN ChooseEdgeFrom(points, k + 1, point, IF better THEN c ELSE best)

\* geoChooseEdge(nodes, point, projection); locs are the nodes' locations
geoChooseEdge(locs, point) ==
    ChooseEdgeFrom([i \in 1..Len(locs) |-> projection(locs[i])], 1, point,
                   [ok |-> FALSE, index |-> 0, dn |-> 0, dd |-> 1, loc |-> <<0, 0>>])

\* Math.abs(edge1.distance - edge2.distance) < epsilon: on the model's grid two
\* different distances differ by more than epsilon = 1e-6
DistanceClose(e1, e2) == e1.dn * e2.dd = e2.dn * e1.dd

(* ---------------------------------------------------------------------- *)
(* Graph and entities                                                     *)
(*   graph = [nodes : id -> loc, ways : id -> [nodes, area], rels : id -> *)
(*            member ids]                                                 *)
(* ---------------------------------------------------------------------- *)
EmptyFn == [x \in {} |-> 0]

hasEntity(g, id) ==
    id \in DOMAIN g.nodes \/ id \in DOMAIN g.ways \/ id \in DOMAIN g.rels

EntityType(g, id) ==
    IF id \in DOMAIN g.nodes THEN "node"
    ELSE IF id \in DOMAIN g.ways THEN "way"
    ELSE IF id \in DOMAIN g.rels THEN "relation"
    ELSE "none"

parentWays(g, nodeId) ==
    {w \in DOMAIN g.ways : nodeId \in Range(g.ways[w].nodes)}

\* locations of graph.childNodes(way), one per entry of way.nodes
childLocs(g, nodeIds) == [i \in 1..Len(nodeIds) |-> g.nodes[nodeIds[i]]]

replaceNode(g, id, loc) == [g EXCEPT !.nodes = (id :> loc) @@ g.nodes]

replaceWayNodes(g, id, nodeIds) == [g EXCEPT !.ways[id].nodes = nodeIds]

isClosed(nodeIds) == Len(nodeIds) > 1 /\ nodeIds[1] = nodeIds[Len(nodeIds)]

affix(nodeIds, id) ==
    Len(nodeIds) > 0 /\ (nodeIds[1] = id \/ nodeIds[Len(nodeIds)] = id)

noRepeatNodes(nodeIds) ==
    LET keep == {i \in 1..Len(nodeIds) : i = 1 \/ nodeIds[i] # nodeIds[i - 1]}
        RECURSIVE Pick(_)
        Pick(i) == IF i > Len(nodeIds) THEN <<>>
                   ELSE (IF i \in keep THEN <<nodeIds[i]>> ELSE <<>>) \o Pick(i + 1)
    IN Pick(1)

keepClosed(wasClosed, nodeIds) ==
    IF wasClosed /\ Len(nodeIds) > 0
       /\ (Len(nodeIds) = 1 \/ nodeIds[1] # nodeIds[Len(nodeIds)])
    THEN Append(nodeIds, nodeIds[1])
    ELSE nodeIds

RemoveAt0(s, i) == SubSeq(s, 1, i) \o SubSeq(s, i + 2, Len(s))

InsertAt0(s, i, x) ==
    LET k == IF i > Len(s) THEN Len(s) ELSE IF i < 0 THEN 0 ELSE i
    IN SubSeq(s, 1, k) \o <<x>> \o SubSeq(s, k + 1, Len(s))

RECURSIVE stripLeading(_)
stripLeading(st) ==
    IF Len(st.nodes) > 2 /\ At0(st.nodes, 1) = st.nodes[1]
    THEN stripLeading([nodes |-> RemoveAt0(st.nodes, 1),
                       index |-> IF st.index > 1 THEN st.index - 1 ELSE st.index])
    ELSE st

RECURSIVE stripTrailing(_)
stripTrailing(st) ==
    LET i == Len(st.nodes) - 1
    IN IF i > 0 /\ At0(st.nodes, i) = st.nodes[1]
       THEN stripTrailing([nodes |-> RemoveAt0(st.nodes, i),
                           index |-> IF st.index > i THEN st.index - 1 ELSE st.index])
       ELSE st

\* way.addNode(id, index)
addNode(nodeIds, id, index) ==
    LET closed == isClosed(nodeIds)
        st == IF closed
              THEN stripTrailing(stripLeading([nodes |-> nodeIds, index |-> index]))
              ELSE [nodes |-> nodeIds, index |-> index]
    IN keepClosed(closed, noRepeatNodes(InsertAt0(st.nodes, st.index, id)))

\* way.removeNode(id)
removeNode(nodeIds, id) ==
    keepClosed(isClosed(nodeIds), noRepeatNodes(Without(nodeIds, id)))

(* ---------------------------------------------------------------------- *)
(* setupCache                                                             *)
(* ---------------------------------------------------------------------- *)
EmptyCache ==
    [ok |-> FALSE, moving |-> {}, intersections |-> <<>>, replacedVertex |-> EmptyFn,
     startLoc |-> EmptyFn, nodes |-> <<>>, ways |-> <<>>]

\* the walk of cacheEntities: a stack of loop frames [ids, i]
CEStart(ids) ==
    [stack |-> <<[ids |-> ids, i |-> 0]>>, moving |-> {}, nodes |-> <<>>,
     ways |-> <<>>, startLoc |-> EmptyFn, steps |-> 0]

CEIdle ==
    [stack |-> <<>>, moving |-> {}, nodes |-> <<>>, ways |-> <<>>,
     startLoc |-> EmptyFn, steps |-> 0]

\* cacheEntitiesStep without "if (cache.moving[id]) continue"
cacheEntitiesStepNoGuard(g, c) ==
    LET d == Len(c.stack)
        top == c.stack[d]
        id == At0(top.ids, top.i)
        adv == [c EXCEPT !.stack[d].i = top.i + 1, !.steps = c.steps + 1]
        type == EntityType(g, id)
        marked == [adv EXCEPT !.moving = c.moving \cup {id}]
    IN IF top.i >= Len(top.ids)
       THEN [c EXCEPT !.stack = SubSeq(c.stack, 1, d - 1), !.steps = c.steps + 1]
       ELSE IF type = "none" THEN marked
       ELSE IF type = "node"
            THEN [marked EXCEPT !.nodes = Append(c.nodes, id),
                                !.startLoc = (id :> g.nodes[id]) @@ c.startLoc]
       ELSE IF type = "way"
            THEN [marked EXCEPT !.ways = Append(c.ways, id),
                                !.stack = Append(adv.stack,
                                                 [ids |-> g.ways[id].nodes, i |-> 0])]
       ELSE [marked EXCEPT !.stack = Append(adv.stack, [ids |-> g.rels[id], i |-> 0])]

\* one loop iteration (or the return) of the innermost cacheEntities call
cacheEntitiesStep(g, c) ==
    LET d == Len(c.stack)
        top == c.stack[d]
        id == At0(top.ids, top.i)
        adv == [c EXCEPT !.stack[d].i = top.i + 1, !.steps = c.steps + 1]
        type == EntityType(g, id)
        marked == [adv EXCEPT !.moving = c.moving \cup {id}]
    IN IF top.i >= Len(top.ids)
       THEN [c EXCEPT !.stack = SubSeq(c.stack, 1, d - 1), !.steps = c.steps + 1]
       ELSE IF id \in c.moving THEN adv
       ELSE IF type = "none" THEN marked
       ELSE IF type = "node"
            THEN [marked EXCEPT !.nodes = Append(c.nodes, id),
                                !.startLoc = (id :> g.nodes[id]) @@ c.startLoc]
       ELSE IF type = "way"
            THEN [marked EXCEPT !.ways = Append(c.ways, id),
                                !.stack = Append(adv.stack,
                                                 [ids |-> g.ways[id].nodes, i |-> 0])]
       ELSE [marked EXCEPT !.stack = Append(adv.stack, [ids |-> g.rels[id], i |-> 0])]

RECURSIVE cacheEntitiesRun(_, _)
cacheEntitiesRun(g, c) ==
    IF c.stack = <<>> THEN c ELSE cacheEntitiesRun(g, cacheEntitiesStep(g, c))

cacheEntities(g, ids) == cacheEntitiesRun(g, CEStart(ids))

isEndpoint(nodeIds, id) == ~isClosed(nodeIds) /\ affix(nodeIds, id)

\* intersectionAt without "if (moved.isArea() || unmoved.isArea()) continue"
intersectionAtNoAreaCheck(g, moving, id, nodeId) ==
    LET parents == parentWays(g, nodeId)
        unmovedSet == {w \in parents : w \notin moving}
        unmovedId == CHOOSE w \in unmovedSet : TRUE
        moved == g.ways[id]
        unmoved == g.ways[unmovedId]
    IN IF Cardinality(parents) # 2 THEN <<>>
       ELSE IF unmovedSet = {} THEN <<>>
       ELSE IF Cardinality(Range(moved.nodes) \cap Range(unmoved.nodes)) > 2 THEN <<>>
       ELSE <<[nodeId |-> nodeId, movedId |-> id, unmovedId |-> unmovedId,
               movedIsEP |-> isEndpoint(moved.nodes, nodeId),
               unmovedIsEP |-> isEndpoint(unmoved.nodes, nodeId)]>>

\* the body of the loop over childNodes for one child node: <<>> or one entry
intersectionAt(g, moving, id, nodeId) ==
    LET parents == parentWays(g, nodeId)
        unmovedSet == {w \in parents : w \notin moving}
        unmovedId == CHOOSE w \in unmovedSet : TRUE
        moved == g.ways[id]
        unmoved == g.ways[unmovedId]
    IN IF Cardinality(parents) # 2 THEN <<>>
       ELSE IF unmovedSet = {} THEN <<>>
       ELSE IF Cardinality(Range(moved.nodes) \cap Range(unmoved.nodes)) > 2 THEN <<>>
       ELSE IF moved.area \/ unmoved.area THEN <<>>
       ELSE <<[nodeId |-> nodeId, movedId |-> id, unmovedId |-> unmovedId,
               movedIsEP |-> isEndpoint(moved.nodes, nodeId),
               unmovedIsEP |-> isEndpoint(unmoved.nodes, nodeId)]>>

RECURSIVE intersectionsOfWay(_, _, _, _)
intersectionsOfWay(g, moving, id, j) ==
    IF j > Len(g.ways[id].nodes) THEN <<>>
    ELSE intersectionAt(g, moving, id, g.ways[id].nodes[j])
         \o intersectionsOfWay(g, moving, id, j + 1)

RECURSIVE cacheIntersections(_, _, _, _)
cacheIntersections(g, moving, ids, i) ==
    IF i > Len(ids) THEN <<>>
    ELSE intersectionsOfWay(g, moving, ids[i], 1)
         \o cacheIntersections(g, moving, ids, i + 1)

\* canMove without the test of moveIds
canMoveNoRoots(g, roots, moving, nodeId) ==
    LET parents == parentWays(g, nodeId)
    IN IF Cardinality(parents) < 3 THEN TRUE
       ELSE \A w \in parents : w \in moving

\* canMove with "parents.length <= 3"
canMoveOffByOne(g, roots, moving, nodeId) ==
    LET parents == parentWays(g, nodeId)
    IN IF nodeId \in Range(roots) THEN TRUE
       ELSE IF Cardinality(parents) <= 3 THEN TRUE
       ELSE \A w \in parents : w \in moving

canMove(g, roots, moving, nodeId) ==
    LET parents == parentWays(g, nodeId)
    IN IF nodeId \in Range(roots) THEN TRUE
       ELSE IF Cardinality(parents) < 3 THEN TRUE
       ELSE \A w \in parents : w \in moving

\* _filter(cache.nodes, canMove), with canMove's delete of cache.moving[nodeId]
RECURSIVE filterNodes(_, _, _, _, _)
filterNodes(g, roots, c, nodes, i) ==
    IF i > Len(nodes) THEN c
    ELSE LET ok == canMove(g, roots, c.moving, nodes[i])
         IN filterNodes(g, roots,
                        IF ok THEN [c EXCEPT !.nodes = Append(c.nodes, nodes[i])]
                        ELSE [c EXCEPT !.moving = c.moving \ {nodes[i]}],
                        nodes, i + 1)

\* "cacheIntersections(cache.ways); cache.nodes = _filter(cache.nodes, canMove);
\* cache.ok = true", walk being the cache after cacheEntities(moveIds)
buildFromWalk(g, roots, walk) ==
    [filterNodes(g, roots,
                 [ok |-> FALSE, moving |-> walk.moving,
                  intersections |-> cacheIntersections(g, walk.moving, walk.ways, 1),
                  replacedVertex |-> EmptyFn, startLoc |-> walk.startLoc,
                  nodes |-> <<>>, ways |-> walk.ways],
                 walk.nodes, 1)
     EXCEPT !.ok = TRUE]

\* the body of "if (!cache.ok)"
buildCache(g, roots) == buildFromWalk(g, roots, cacheEntities(g, roots))

\* setupCache with cacheIntersections(cache.ways) after the "if (!cache.ok)" block
setupCacheRescan(g, roots, c) ==
    IF c.ok
    THEN [c EXCEPT !.intersections =
             c.intersections \o cacheIntersections(g, c.moving, c.ways, 1)]
    ELSE buildCache(g, roots)

setupCache(g, roots, c) == IF c.ok THEN c ELSE buildCache(g, roots)

(* ---------------------------------------------------------------------- *)
(* The action: a run threads st = [graph, cache, nextId]                   *)
(* ---------------------------------------------------------------------- *)
\* the lookup of cache.replacedVertex never finds the placeholder
cachedVertexNever(c, key) == FALSE

\* "orig = cache.replacedVertex[key]" is truthy
cachedVertex(c, key) == key \in DOMAIN c.replacedVertex

\* Place a vertex where the moved vertex used to be, to preserve way shape.
\* withDelta is FALSE for the call that passes null.
replaceMovedVertex(st, nodeId, wayId, withDelta, d) ==
    LET graph == st.graph
        wayNodes == graph.ways[wayId].nodes
        movedLoc == graph.nodes[nodeId]
        movedIndex == IndexOf(wayNodes, nodeId)
        closed == isClosed(wayNodes)
        len == IF closed THEN Len(wayNodes) - 1 ELSE Len(wayNodes)
        prevIndex == IF closed THEN (movedIndex + len - 1) % len ELSE movedIndex - 1
        nextIndex == IF closed THEN (movedIndex + len + 1) % len ELSE movedIndex + 1
        hasPrev == Has0(wayNodes, prevIndex) /\ hasEntity(graph, At0(wayNodes, prevIndex))
        hasNext == Has0(wayNodes, nextIndex) /\ hasEntity(graph, At0(wayNodes, nextIndex))
        prevLoc == graph.nodes[At0(wayNodes, prevIndex)]
        nextLoc == graph.nodes[At0(wayNodes, nextIndex)]
        key == <<wayId, nodeId>>
        cached == cachedVertex(st.cache, key)
        origId == IF cached THEN st.cache.replacedVertex[key] ELSE -st.nextId
        cache1 == IF cached THEN st.cache
                  ELSE [st.cache EXCEPT
                          !.replacedVertex = (key :> origId) @@ st.cache.replacedVertex,
                          !.startLoc = (origId :> st.cache.startLoc[nodeId])
                                       @@ st.cache.startLoc]
        st1 == [st EXCEPT !.cache = cache1,
                          !.nextId = IF cached THEN st.nextId ELSE st.nextId + 1]
        end == IF withDelta
               THEN projectionInvert(geoVecAdd(projection(cache1.startLoc[nodeId]), d))
               ELSE cache1.startLoc[nodeId]
        p1 == <<projection(prevLoc), projection(end), projection(movedLoc),
                projection(nextLoc)>>
        p2 == <<projection(prevLoc), projection(movedLoc), projection(end),
                projection(nextLoc)>>
        insertAt0 == IF geoPathLength(p1) <= geoPathLength(p2)
                     THEN movedIndex ELSE nextIndex
        insertAt == IF closed /\ insertAt0 = 0 THEN len ELSE insertAt0
    IN IF ~hasPrev \/ ~hasNext THEN st
       ELSE IF AngleIsStraight(projection(end), projection(prevLoc), projection(nextLoc))
            THEN st1
       ELSE [st1 EXCEPT !.graph =
                replaceWayNodes(replaceNode(graph, origId, end), wayId,
                                addNode(wayNodes, origId, insertAt))]

\* the refinement loop of unZorroIntersection: [loc, edge1, edge2]
RECURSIVE snapLoop(_, _, _, _, _)
RECURSIVE snapAt(_, _, _, _)
RECURSIVE snapTest(_, _, _, _, _, _)
snapLoop(locs1, locs2, edge1, edge2, i) ==
    snapAt(locs1, locs2, geoVecInterpHalf(edge1.loc, edge2.loc), i)

snapAt(locs1, locs2, loc, i) ==
    snapTest(locs1, locs2, loc, geoChooseEdge(locs1, projection(loc)),
             geoChooseEdge(locs2, projection(loc)), i)

snapTest(locs1, locs2, loc, e1, e2, i) ==
    IF i + 1 >= 10 \/ DistanceClose(e1, e2)
    THEN [loc |-> loc, edge1 |-> e1, edge2 |-> e2]
    ELSE snapLoop(locs1, locs2, e1, e2, i + 1)

\* "if zorro happened, reorder nodes": the vertex is put at edge.index of the
\* way unless it is an endpoint of it or already there
reorderVertex(graph, wayId, wayNodes, vertexId, isEP, edge) ==
    IF ~isEP /\ edge.index # IndexOf(wayNodes, vertexId)
    THEN replaceWayNodes(graph, wayId,
                         addNode(removeNode(wayNodes, vertexId), vertexId, edge.index))
    ELSE graph

\* "_without(graph.childNodes(way), vertex)", closed again when the vertex was
\* the first node of a closed way
nodesWithoutVertex(wayNodes, without, vertexId) ==
    IF isClosed(wayNodes) /\ wayNodes[1] = vertexId /\ Len(without) > 0
    THEN Append(without, without[1]) ELSE without

\* "snap vertex to nearest edge (or some point between them)"
snapVertex(locs1, locs2, first1, first2, isEP1, isEP2) ==
    IF ~isEP1 /\ ~isEP2 THEN snapLoop(locs1, locs2, first1, first2, 0)
    ELSE IF ~isEP1 THEN [loc |-> first1.loc, edge1 |-> first1, edge2 |-> first2]
    ELSE [loc |-> first2.loc, edge1 |-> first1, edge2 |-> first2]

\* the end of unZorroIntersection: move the vertex, then reorder way1 and way2
moveAndReorder(graph, intersection, way1, way2, snap) ==
    reorderVertex(
        reorderVertex(replaceNode(graph, intersection.nodeId, snap.loc),
                      intersection.movedId, way1, intersection.nodeId,
                      intersection.movedIsEP, snap.edge1),
        intersection.unmovedId, way2, intersection.nodeId,
        intersection.unmovedIsEP, snap.edge2)

snapOnto(graph, intersection, way1, way2, locs1, locs2, point) ==
    moveAndReorder(graph, intersection, way1, way2,
                   snapVertex(locs1, locs2, geoChooseEdge(locs1, point),
                              geoChooseEdge(locs2, point),
                              intersection.movedIsEP, intersection.unmovedIsEP))

unZorroWays(graph, intersection, way1, way2) ==
    snapOnto(graph, intersection, way1, way2,
             childLocs(graph, nodesWithoutVertex(way1, Without(way1, intersection.nodeId),
                                                 intersection.nodeId)),
             childLocs(graph, nodesWithoutVertex(way2, Without(way2, intersection.nodeId),
                                                 intersection.nodeId)),
             projection(graph.nodes[intersection.nodeId]))

\* Reorder nodes around intersections that have moved.
unZorroIntersection(st, intersection) ==
    IF intersection.movedIsEP /\ intersection.unmovedIsEP THEN st
    ELSE [st EXCEPT !.graph =
             unZorroWays(st.graph, intersection,
                         st.graph.ways[intersection.movedId].nodes,
                         st.graph.ways[intersection.unmovedId].nodes)]

RECURSIVE cleanupIntersections(_, _, _)
cleanupIntersections(st, d, i) ==
    IF i >= Len(st.cache.intersections) THEN st
    ELSE LET obj == At0(st.cache.intersections, i)
             s1 == replaceMovedVertex(st, obj.nodeId, obj.movedId, TRUE, d)
             s2 == replaceMovedVertex(s1, obj.nodeId, obj.unmovedId, FALSE, d)
         IN cleanupIntersections(unZorroIntersection(s2, obj), d, i + 1)

\* limitDelta: lm = [i, delta, visited, examined]; both loops count on i, the
\* inner one reads hits[j] with j = 0 throughout (line 296).
\* visited: <<intersection index, hits.length>> of each intersection that reached
\* the inner loop; examined: <<intersection index, hit index>> of each hit tested.
RECURSIVE limitInner(_, _, _, _, _, _, _)
limitInner(lm, i0, hits, start, end, unmovedLocs, j) ==
    IF ~(lm.i < Len(hits)) THEN lm
    ELSE LET seen == [lm EXCEPT !.examined = lm.examined \cup {<<i0, j>>},
                                !.i = lm.i + 1]
             edge == geoChooseEdge(unmovedLocs, end)
         IN IF HitEquals(At0(hits, j), end)
            THEN limitInner(seen, i0, hits, start, end, unmovedLocs, j)
            ELSE limitInner([seen EXCEPT !.delta =
                                geoVecSubtract(projection(edge.loc), start)],
                            i0, hits, start, end, unmovedLocs, j)

RECURSIVE limitOuter(_, _, _)
limitOuter(graph, ints, lm) ==
    IF ~(lm.i < Len(ints)) THEN lm
    ELSE LET obj == At0(ints, lm.i)
             start == projection(graph.nodes[obj.nodeId])
             end == geoVecAdd(start, lm.delta)
             movedLocs == childLocs(graph, graph.ways[obj.movedId].nodes)
             movedPath == [k \in 1..Len(movedLocs) |->
                              geoVecAdd(projection(movedLocs[k]), lm.delta)]
             unmovedLocs == childLocs(graph, graph.ways[obj.unmovedId].nodes)
             unmovedPath == [k \in 1..Len(unmovedLocs) |-> projection(unmovedLocs[k])]
             hits == geoPathIntersections(movedPath, unmovedPath)
             entered == [lm EXCEPT !.visited = lm.visited \cup {<<lm.i, Len(hits)>>}]
             after == limitInner(entered, lm.i, hits, start, end, unmovedLocs, 0)
         IN IF obj.movedIsEP /\ obj.unmovedIsEP
            THEN limitOuter(graph, ints, [lm EXCEPT !.i = lm.i + 1])
            ELSE IF ~obj.movedIsEP
            THEN limitOuter(graph, ints, [lm EXCEPT !.i = lm.i + 1])
            ELSE limitOuter(graph, ints, [after EXCEPT !.i = after.i + 1])

NoLimitLog == [i |-> 0, delta |-> <<0, 0>>, visited |-> {}, examined |-> {}]

limitDelta(graph, c, d) ==
    limitOuter(graph, c.intersections, [NoLimitLog EXCEPT !.delta = d])

\* the loop over cache.nodes of the action
RECURSIVE translateNodes(_, _, _, _)
translateNodes(graph, nodes, d, i) ==
    IF i >= Len(nodes) THEN graph
    ELSE LET id == At0(nodes, i)
             end == geoVecAdd(projection(graph.nodes[id]), d)
         IN translateNodes(replaceNode(graph, id, projectionInvert(end)), nodes, d, i + 1)

\* "_delta === [0, 0]", which no array satisfies
isZeroDeltaByIdentity(d) == FALSE

isZeroDelta(d) == d[1] = 0 /\ d[2] = 0

\* the _delta the loop over cache.nodes adds: lm is the limiter's outcome, d the
\* offset before it
appliedDeltaUnlimited(lm, d) == d

appliedDelta(lm, d) == lm.delta

\* what action(graph) leaves: [graph, cache, nextId, delta, translated, log]
actionResult(st, lm, moved) ==
    [graph |-> st.graph, cache |-> st.cache, nextId |-> st.nextId,
     delta |-> lm.delta, translated |-> moved, log |-> lm]

\* "if (cache.intersections.length) graph = cleanupIntersections(graph)"
actionCleanup(st0, lm) ==
    actionResult(IF Len(st0.cache.intersections) > 0
                 THEN cleanupIntersections(st0, lm.delta, 0) ELSE st0,
                 lm, st0.graph)

\* the loop over cache.nodes
actionTranslate(graph, c1, lm, d, nid) ==
    actionCleanup([graph |-> translateNodes(graph, c1.nodes, appliedDelta(lm, d), 0),
                   cache |-> c1, nextId |-> nid], lm)

\* "if (cache.intersections.length) limitDelta(graph)"
actionLimit(graph, c1, d, nid) ==
    actionTranslate(graph, c1,
                    IF Len(c1.intersections) > 0 THEN limitDelta(graph, c1, d)
                    ELSE [NoLimitLog EXCEPT !.delta = d],
                    d, nid)

\* action(graph)
action(graph, roots, c, d, nid) ==
    IF isZeroDelta(d)
    THEN [graph |-> graph, cache |-> c, nextId |-> nid, delta |-> d,
          translated |-> graph, log |-> NoLimitLog]
    ELSE actionLimit(graph, setupCache(graph, roots, c), d, nid)

(* ---------------------------------------------------------------------- *)
(* Graphs and root id lists the action is exercised on                    *)
(* ---------------------------------------------------------------------- *)
Way(nodeIds) == [nodes |-> nodeIds, area |-> FALSE]

Area(nodeIds) == [nodes |-> nodeIds, area |-> TRUE]

\*  1 - 2 - 3 - 4     way 102 (static), way 101 = 2,5 hangs below vertex 2
\*      |
\*      5
GraphT ==
    [nodes |-> (1 :> <<0, 2>>) @@ (2 :> <<2, 2>>) @@ (3 :> <<4, 2>>)
               @@ (4 :> <<6, 2>>) @@ (5 :> <<2, 0>>),
     ways |-> (101 :> Way(<<2, 5>>)) @@ (102 :> Way(<<1, 2, 3, 4>>)),
     rels |-> EmptyFn]

\* way 102 = 1,2,3 bends sharply at vertex 2; way 101 = 2,5 goes up from it
GraphBend ==
    [nodes |-> (1 :> <<0, 0>>) @@ (2 :> <<2, 2>>) @@ (3 :> <<4, 0>>)
               @@ (5 :> <<2, 4>>),
     ways |-> (101 :> Way(<<2, 5>>)) @@ (102 :> Way(<<1, 2, 3>>)),
     rels |-> EmptyFn]

\* way 101 = 2,5,7 ends on two static ways, 102 (y = 4) and 103 (y = 0)
GraphH ==
    [nodes |-> (1 :> <<0, 4>>) @@ (2 :> <<2, 4>>) @@ (3 :> <<4, 4>>)
               @@ (5 :> <<3, 2>>) @@ (6 :> <<0, 0>>) @@ (7 :> <<2, 0>>)
               @@ (8 :> <<4, 0>>),
     ways |-> (101 :> Way(<<2, 5, 7>>)) @@ (102 :> Way(<<1, 2, 3>>))
              @@ (103 :> Way(<<6, 7, 8>>)),
     rels |-> EmptyFn]

\* vertex 2 joins ways 101, 102, 103; vertex 1 joins 101 and the static 104
GraphStar ==
    [nodes |-> (1 :> <<0, 2>>) @@ (2 :> <<2, 2>>) @@ (3 :> <<4, 2>>)
               @@ (4 :> <<2, 0>>) @@ (5 :> <<0, 4>>) @@ (6 :> <<0, 0>>),
     ways |-> (101 :> Way(<<1, 2>>)) @@ (102 :> Way(<<2, 3>>))
              @@ (103 :> Way(<<2, 4>>)) @@ (104 :> Way(<<5, 1, 6>>)),
     rels |-> EmptyFn]

\* the closed way 101 (not an area) starts and ends at vertex 2 of way 102
GraphLoop ==
    [nodes |-> (1 :> <<0, 2>>) @@ (2 :> <<2, 2>>) @@ (3 :> <<4, 2>>)
               @@ (5 :> <<3, 4>>) @@ (6 :> <<1, 4>>),
     ways |-> (101 :> Way(<<2, 5, 6, 2>>)) @@ (102 :> Way(<<1, 2, 3>>)),
     rels |-> EmptyFn]

\* as GraphBend, with the area 103 also attached to vertex 5 of way 101
GraphArea ==
    [nodes |-> (1 :> <<0, 0>>) @@ (2 :> <<2, 2>>) @@ (3 :> <<4, 0>>)
               @@ (5 :> <<2, 4>>) @@ (6 :> <<1, 5>>) @@ (7 :> <<3, 5>>),
     ways |-> (101 :> Way(<<2, 5>>)) @@ (102 :> Way(<<1, 2, 3>>))
              @@ (103 :> Area(<<5, 6, 7, 5>>)),
     rels |-> EmptyFn]

\* ways 101 and 102 cross at vertex 2, an inner vertex of both
GraphX ==
    [nodes |-> (1 :> <<0, 2>>) @@ (2 :> <<2, 2>>) @@ (3 :> <<4, 2>>)
               @@ (5 :> <<2, 4>>) @@ (6 :> <<2, 0>>),
     ways |-> (101 :> Way(<<5, 2, 6>>)) @@ (102 :> Way(<<1, 2, 3>>)),
     rels |-> EmptyFn]

\* ways 101 and 102 share three nodes
GraphOverlap ==
    [nodes |-> (1 :> <<0, 2>>) @@ (2 :> <<2, 3>>) @@ (3 :> <<4, 2>>)
               @@ (4 :> <<6, 2>>),
     ways |-> (101 :> Way(<<1, 2, 3>>)) @@ (102 :> Way(<<1, 2, 3, 4>>)),
     rels |-> EmptyFn]

\* relations: 201 contains itself, 202 and 203 contain each other; 299 and 9
\* are members that are not in the graph
GraphRel ==
    [nodes |-> (1 :> <<0, 2>>) @@ (2 :> <<2, 2>>) @@ (3 :> <<4, 2>>)
               @@ (5 :> <<2, 0>>),
     ways |-> (101 :> Way(<<2, 5>>)) @@ (102 :> Way(<<1, 2, 3>>)),
     rels |-> (201 :> <<201, 101, 9>>) @@ (202 :> <<203, 1>>)
              @@ (203 :> <<202, 5, 299>>)]

Scenarios ==
    { [graph |-> GraphT, roots |-> <<101>>],
      [graph |-> GraphT, roots |-> <<5>>],
      [graph |-> GraphBend, roots |-> <<101>>],
      [graph |-> GraphH, roots |-> <<101>>],
      [graph |-> GraphStar, roots |-> <<101, 102>>],
      [graph |-> GraphStar, roots |-> <<101, 102, 2>>],
      [graph |-> GraphStar, roots |-> <<101, 102, 103>>],
      [graph |-> GraphLoop, roots |-> <<101>>],
      [graph |-> GraphArea, roots |-> <<101>>],
      [graph |-> GraphX, roots |-> <<101>>],
      [graph |-> GraphOverlap, roots |-> <<101>>],
      [graph |-> GraphRel, roots |-> <<201, 201>>],
      [graph |-> GraphRel, roots |-> <<202>>],
      [graph |-> GraphRel, roots |-> <<101, 2, 101, 77>>] }

Deltas == {<<x, y>> : x \in (-MaxDelta)..MaxDelta, y \in (-MaxDelta)..MaxDelta}

(* ---------------------------------------------------------------------- *)
(* Specification of the action: proposals on the base graph, one cache    *)
(* ---------------------------------------------------------------------- *)
Init ==
    /\ \E sc \in Scenarios : base = sc.graph /\ moveIds = sc.roots
    /\ cache = EmptyCache
    /\ delta = <<0, 0>>
    /\ tryDelta = <<0, 0>>
    /\ status = "none"
    /\ result = base
    /\ translated = base
    /\ nextId = 1
    /\ limitLog = NoLimitLog
    /\ reported = <<>>
    /\ reused = FALSE
    /\ ce = CEIdle

\* actionMove(moveIds, tryDelta, projection, cache)
NewAction ==
    /\ \E d \in Deltas : delta' = d /\ tryDelta' = d
    /\ status' = "created"
    /\ result' = base
    /\ translated' = base
    /\ limitLog' = NoLimitLog
    /\ reported' = <<>>
    /\ UNCHANGED <<base, moveIds, cache, nextId, reused, ce>>

\* action(graph), on the base graph
Apply ==
    /\ status \in {"created", "applied"}
    /\ \E r \in {action(base, moveIds, cache, delta, nextId)} :
          /\ result' = r.graph
          /\ cache' = r.cache
          /\ nextId' = r.nextId
          /\ delta' = r.delta
          /\ translated' = r.translated
          /\ limitLog' = r.log
    /\ status' = "applied"
    /\ reported' = <<>>
    /\ reused' = (cache.ok /\ ~isZeroDelta(delta))
    /\ UNCHANGED <<base, moveIds, tryDelta, ce>>

\* action.delta()
Delta ==
    /\ status # "none"
    /\ reported' = <<delta>>
    /\ UNCHANGED <<base, moveIds, cache, delta, tryDelta, status, result, translated,
                   nextId, limitLog, reused, ce>>

Next == NewAction \/ Apply \/ Delta

Spec == Init /\ [][Next]_vars

(* ---------------------------------------------------------------------- *)
(* Specification of the walk of cacheEntities, one loop iteration a step  *)
(* ---------------------------------------------------------------------- *)
InitCE ==
    /\ \E sc \in Scenarios : base = sc.graph /\ moveIds = sc.roots
    /\ cache = EmptyCache
    /\ delta = <<0, 0>>
    /\ tryDelta = <<0, 0>>
    /\ status = "none"
    /\ result = base
    /\ translated = base
    /\ nextId = 1
    /\ limitLog = NoLimitLog
    /\ reported = <<>>
    /\ reused = FALSE
    /\ ce = CEStart(moveIds)

CEStep ==
    /\ ce.stack # <<>>
    /\ Len(ce.stack) <= MaxDepth
    /\ ce' = cacheEntitiesStep(base, ce)
    /\ UNCHANGED <<base, moveIds, cache, delta, tryDelta, status, result, translated,
                   nextId, limitLog, reported, reused>>

NextCE == CEStep

SpecCE == InitCE /\ [][NextCE]_vars /\ WF_vars(CEStep)

(* ---------------------------------------------------------------------- *)
(* Properties                                                             *)
(* ---------------------------------------------------------------------- *)
RECURSIVE ClosureFrom(_, _)
ClosureFrom(g, S) ==
    LET S2 == S \cup UNION {Range(g.ways[w].nodes) : w \in S \cap DOMAIN g.ways}
                \cup UNION {Range(g.rels[r]) : r \in S \cap DOMAIN g.rels}
    IN IF S2 = S THEN S ELSE ClosureFrom(g, S2)

\* the transitive closure of the root ids under way -> nodes, relation -> members
Closure == ClosureFrom(base, Range(moveIds))

\* a vertex shared by 3 or more ways, not all of them in the set moving
Crowded(moving, v) ==
    /\ v \in DOMAIN base.nodes
    /\ Cardinality(parentWays(base, v)) >= 3
    /\ \E w \in parentWays(base, v) : w \notin moving

EntriesAt(v) ==
    {i \in 1..Len(cache.intersections) : cache.intersections[i].nodeId = v}

\* nodes of a way, the closing connector of a closed way counted once
Ring(nodeIds) ==
    IF isClosed(nodeIds) THEN SubSeq(nodeIds, 1, Len(nodeIds) - 1) ELSE nodeIds

\* C1: applying the action with offset (0,0) returns the input graph: every
\* node location, way node sequence and the entity set are those of the input.
C1_ZeroDeltaReturnsInput ==
    [][(Apply /\ delta = <<0, 0>>) => result' = base]_vars

C1_Witness ==
    /\ status = "applied"
    /\ tryDelta = <<0, 0>>
    /\ cache.ok
    /\ Len(cache.intersections) > 0
    /\ result = base

\* C2: limitDelta examines every intersection whose moved side is an endpoint
\* and whose unmoved side is not, and every crossing point of each of them.
C2_EveryOffendingIntersectionExamined ==
    limitLog.i > 0 =>
        \A i \in 0..(Len(cache.intersections) - 1) :
            LET obj == At0(cache.intersections, i)
            IN (obj.movedIsEP /\ ~obj.unmovedIsEP) =>
                  /\ \E v \in limitLog.visited : v[1] = i
                  /\ \A v \in limitLog.visited :
                        v[1] = i => \A j \in 0..(v[2] - 1) : <<i, j>> \in limitLog.examined

\* C3 (as stated): after setupCache the keys of cache.moving are the closure of
\* the root ids minus every vertex shared by 3 or more ways whose parent ways
\* are not all moving.
C3_MovingIsClosureMinusCrowded ==
    cache.ok => cache.moving = Closure \ {v \in Closure : Crowded(Closure, v)}

\* C3 (amended): after setupCache the keys of cache.moving are the closure of
\* the root ids minus every vertex that is not itself a root id and is shared
\* by 3 or more ways whose parent ways are not all moving.
C3_MovingIsClosureMinusCrowdedNonRoots ==
    cache.ok =>
        cache.moving =
            Closure \ {v \in Closure : v \notin Range(moveIds) /\ Crowded(Closure, v)}

C3_Witness ==
    /\ cache.ok
    /\ \E v \in Closure : v \notin Range(moveIds) /\ Crowded(Closure, v)
                          /\ v \notin cache.moving
    /\ \E w \in cache.moving : w \in DOMAIN base.ways

\* C4: two non-area ways that share exactly one vertex, which has exactly these
\* two parent ways, one way moving and the other not, give exactly one entry of
\* cache.intersections for that vertex.
C4_ExactlyOneIntersectionPerSharedVertex ==
    cache.ok =>
        \A m \in DOMAIN base.ways, u \in DOMAIN base.ways, v \in DOMAIN base.nodes :
            ( /\ m # u
              /\ ~base.ways[m].area /\ ~base.ways[u].area
              /\ Range(base.ways[m].nodes) \cap Range(base.ways[u].nodes) = {v}
              /\ parentWays(base, v) = {m, u}
              /\ m \in cache.moving /\ u \notin cache.moving )
            => Cardinality(EntriesAt(v)) = 1

\* C5: every entry of cache.intersections has a moving way as movedId, a way
\* that is not moving as unmovedId, a nodeId that is a node of both, at most 2
\* node ids shared by the two ways, and neither way is an area.
C5_IntersectionEntriesWellFormed ==
    cache.ok =>
        \A i \in 1..Len(cache.intersections) :
            LET obj == cache.intersections[i]
            IN /\ obj.movedId \in DOMAIN base.ways
               /\ obj.unmovedId \in DOMAIN base.ways
               /\ obj.movedId \in cache.moving
               /\ obj.unmovedId \notin cache.moving
               /\ obj.nodeId \in Range(base.ways[obj.movedId].nodes)
               /\ obj.nodeId \in Range(base.ways[obj.unmovedId].nodes)
               /\ Cardinality(Range(base.ways[obj.movedId].nodes)
                              \cap Range(base.ways[obj.unmovedId].nodes)) <= 2
               /\ ~base.ways[obj.movedId].area
               /\ ~base.ways[obj.unmovedId].area

C5_Witness ==
    /\ cache.ok
    /\ Len(cache.intersections) > 0
    /\ \E w \in DOMAIN base.ways : base.ways[w].area

\* C6: once the cache is ok, no later step changes cache.moving, cache.nodes,
\* cache.ways or cache.intersections.
C6_OkCacheIsNotRebuilt ==
    [][cache.ok => /\ cache'.ok
                   /\ cache'.moving = cache.moving
                   /\ cache'.nodes = cache.nodes
                   /\ cache'.ways = cache.ways
                   /\ cache'.intersections = cache.intersections]_vars

C6_Witness ==
    /\ status = "applied"
    /\ reused
    /\ delta # tryDelta
    /\ Len(cache.intersections) > 0

\* C7: a node that is not a root id and is shared by 3 or more ways, not all of
\* them moving, is in neither cache.nodes nor cache.moving, and the returned
\* graph has it where the input graph has it.
C7_CrowdedVertexStays ==
    (status = "applied" /\ cache.ok) =>
        \A v \in DOMAIN base.nodes :
            (v \notin Range(moveIds) /\ Crowded(cache.moving, v)) =>
                /\ v \notin Range(cache.nodes)
                /\ v \notin cache.moving
                /\ result.nodes[v] = base.nodes[v]

C7_Witness ==
    /\ status = "applied"
    /\ cache.ok
    /\ delta # <<0, 0>>
    /\ Len(cache.intersections) > 0
    /\ \E v \in DOMAIN base.nodes :
          /\ v \notin Range(moveIds) /\ Crowded(cache.moving, v)
          /\ v \in Closure
          /\ result.nodes[v] = base.nodes[v]
    /\ \E n \in Range(cache.nodes) : result.nodes[n] # base.nodes[n]

\* C8: after the action returns, delta() is the offset every node of
\* cache.nodes was translated by: the projected location after the translation
\* loop is the projected input location plus delta().
C8_DeltaIsTheAppliedOffset ==
    (status = "applied" /\ reported # <<>>) =>
        \A n \in Range(cache.nodes) :
            projection(translated.nodes[n])
                = geoVecAdd(projection(base.nodes[n]), reported[1])

C8_Witness ==
    /\ status = "applied"
    /\ reported # <<>>
    /\ reported[1] # tryDelta
    /\ reported[1] # <<0, 0>>
    /\ cache.nodes # <<>>
    /\ translated # base

\* the loop iterations and returns of a walk that expands each way and each
\* relation of the graph at most once
StepBound ==
    LET Sum(f, S) ==
            LET RECURSIVE Acc(_)
                Acc(T) == IF T = {} THEN 0
                          ELSE LET x == CHOOSE y \in T : TRUE
                               IN f[x] + Acc(T \ {x})
            IN Acc(S)
    IN Len(moveIds) + 1
       + Sum([w \in DOMAIN base.ways |-> Len(base.ways[w].nodes) + 1], DOMAIN base.ways)
       + Sum([r \in DOMAIN base.rels |-> Len(base.rels[r]) + 1], DOMAIN base.rels)

\* C9: cacheEntities terminates, also on relations that contain themselves or
\* each other and on repeated root ids, and appends no id twice to cache.nodes
\* or to cache.ways.
C9_WalkTerminatesWithoutRepeats ==
    /\ [](NoDup(ce.nodes) /\ NoDup(ce.ways) /\ ce.steps <= StepBound)
    /\ <>(ce.stack = <<>>)

C9_Witness ==
    /\ ce.stack = <<>>
    /\ ce.steps > 0
    /\ 201 \in ce.moving
    /\ 201 \in Range(base.rels[201])
    /\ \E i, j \in 1..Len(moveIds) : i # j /\ moveIds[i] = moveIds[j]

\* C10: one placeholder node is made per (way id, vertex id) key over all the
\* applications that share the cache, the way of the key holds it at most once,
\* and its cache.startLoc is the vertex's location in the input graph.
C10_OnePlaceholderPerKey ==
    /\ nextId - 1 = Cardinality(DOMAIN cache.replacedVertex)
    /\ \A key \in DOMAIN cache.replacedVertex :
          LET orig == cache.replacedVertex[key]
          IN /\ \A other \in DOMAIN cache.replacedVertex :
                   cache.replacedVertex[other] = orig => other = key
             /\ Count(Ring(result.ways[key[1]].nodes), orig) <= 1
             /\ \A w \in DOMAIN result.ways :
                   w # key[1] => orig \notin Range(result.ways[w].nodes)
             /\ cache.startLoc[orig] = base.nodes[key[2]]

C10_Witness ==
    /\ status = "applied"
    /\ reused
    /\ \E key \in DOMAIN cache.replacedVertex :
          cache.replacedVertex[key] \in Range(result.ways[key[1]].nodes)

====
